---- MODULE Spec2Model ----
(***************************************************************************)
(* Model of the netbench orchestrator (src/proxy_netbench/run.py): the     *)
(* process supervisor, the readiness discovery, the streaming event        *)
(* pipeline and the metrics aggregator.                                    *)
(*                                                                         *)
(* Spec     the driver main() with its child processes                     *)
(* SpecStream  the streaming loop alone, with more lines                   *)
(* SpecAgg  the aggregation and summary functions applied to bounded inputs*)
(***************************************************************************)
EXTENDS Integers, Sequences, FiniteSets, TLC

(* ---------- bounds ---------- *)
\* polls of wait_for_file before its deadline passes
MaxPolls == 2
\* lines the runner writes to its stdout in one run of the driver (Spec)
MaxLines == 1
\* lines the runner writes to its stdout in one run of the pipeline (SpecStream)
MaxStreamLines == 3
\* spinner redraws in one run
MaxSpins == 2
\* events in an input of the aggregation functions
MaxAggEvents == 3
\* largest current or previous metric value handed to format_delta
MaxMetric == 8

(* ---------- program values ---------- *)
\* the supervised processes of `procs`, in start order
ProcNames == <<"mock", "proxy">>

ProcSet == {ProcNames[i] : i \in 1..Len(ProcNames)}

\* exit statuses a child may end with
ExitCodes == {0, 1}

NoExc == [kind |-> "none", proc |-> "", code |-> 0, dead |-> FALSE]

Exc(kind, proc, code, dead) == [kind |-> kind, proc |-> proc, code |-> code, dead |-> dead]

VARIABLES
  proxy_is_enabled,  \* args.proxy != "direct"
  report_file,       \* bool(args.report_file), also keep_data
  pc,                \* position of the driver
  atexit_registered, \* atexit.register(cleanup) has run
  procs,             \* the list of tracked Proc
  pstate,            \* per supervised process: "none" | "running" | "exited"
  pcode,             \* per supervised process: its exit status
  pkilled,           \* per supervised process: SIGKILL was delivered
  addrfile,          \* per supervised process: "absent" | "empty" | "blank" | "addr"
  polls,             \* sleeps of the running wait_for_file
  dead_polls,        \* ... of them slept with the awaited process already exited
  target_addr,       \* whose address the runner is pointed at
  exc,               \* the exception that left main(), or NoExc
  exit_code,         \* SystemExit code, -1 while running
  log,               \* signals, terminate returns and diagnostics, in order
  clTodo,            \* cleanup: processes still to terminate, in order
  clRet,             \* cleanup: where the caller continues
  tphase,            \* terminate_process: position inside the call
  tgrace,            \* terminate_process: target exited during the graceful wait
  twaits,            \* terminate_process: timeout-bounded waits performed
  rstate,            \* runner: "none" | "running" | "exited"
  rclosed,           \* runner: write end of stdout closed
  rcode,             \* runner: exit status
  rc,                \* value of runner.wait(), -1 before
  written,           \* every line the runner wrote
  pipe,              \* lines written and not yet read
  file,              \* run.jsonl
  events,            \* the event buffer
  last_summary,      \* last summary event, or JNull
  spin,              \* spinner state
  line_budget,       \* lines the runner has to write in this run
  blocked_count,     \* "unset" | "unknown" | "known"
  aggEvents,         \* SpecAgg: input event sequence
  aggOut,            \* SpecAgg: result of compute_aggregate_from_events, or JNull
  sumOut,            \* SpecAgg: text of the stable summary, <<>> before it is rendered
  kvOut,             \* SpecAgg: parse_kv_summary of that text, or JNull
  deltaIn,           \* SpecDelta: arguments cur, prev, is_rate, or JNull
  deltaOut,          \* SpecDelta: texts of format_delta and fmt_delta, or <<>>
  data_dir,          \* the temporary directory: "none" | "exists" | "removed"
  outputs            \* the output steps main() has run after the runner ended

drvVars == <<proxy_is_enabled, report_file, pc, atexit_registered, procs, pstate,
             pcode, pkilled, addrfile, polls, dead_polls, target_addr, exc, exit_code,
             log, clTodo, clRet, tphase, tgrace, twaits, blocked_count>>

runVars == <<rstate, rclosed, rcode, rc, written, pipe, file, events,
             last_summary, spin, line_budget>>

aggVars == <<aggEvents, aggOut, sumOut, kvOut, deltaIn, deltaOut>>

artVars == <<data_dir, outputs>>

vars == <<drvVars, runVars, aggVars, artVars>>

(* ---------- JSON values ---------- *)
JNull == [j |-> "null"]

JNum(n) == [j |-> "num", n |-> n]

JObj(o) == [j |-> "obj", o |-> o]

IsDict(v) == v.j = "obj"

\* dict.get(key, default)
Get(d, k, default) == IF k \in DOMAIN d THEN d[k] ELSE default

(* ---------- child processes (external binaries) ---------- *)
\* The address file of a child is followed until the driver has read it
\* (pc in wait_p, read_p): nothing reads it afterwards.
\* a started mock or proxy creates its address file without content
ChildCreateFile(p) ==
  /\ pstate[p] = "running" /\ ~pkilled[p]
  /\ pc \in {"wait_" \o p, "read_" \o p}
  /\ addrfile[p] = "absent"
  /\ addrfile' = [addrfile EXCEPT ![p] = "empty"]
  /\ UNCHANGED <<proxy_is_enabled, report_file, pc, atexit_registered, procs, pstate,
                 pcode, pkilled, polls, dead_polls, target_addr, exc, exit_code, log, clTodo,
                 clRet, tphase, tgrace, twaits, blocked_count, runVars, aggVars, artVars>>

\* ... writes the bound address, or only whitespace, into it
ChildWriteFile(p) ==
  /\ pstate[p] = "running" /\ ~pkilled[p]
  /\ pc \in {"wait_" \o p, "read_" \o p}
  /\ addrfile[p] \in {"absent", "empty"}
  /\ \E c \in {"blank", "addr"} : addrfile' = [addrfile EXCEPT ![p] = c]
  /\ UNCHANGED <<proxy_is_enabled, report_file, pc, atexit_registered, procs, pstate,
                 pcode, pkilled, polls, dead_polls, target_addr, exc, exit_code, log, clTodo,
                 clRet, tphase, tgrace, twaits, blocked_count, runVars, aggVars, artVars>>

\* ... removes it again
ChildRemoveFile(p) ==
  /\ pstate[p] = "running" /\ ~pkilled[p]
  /\ pc \in {"wait_" \o p, "read_" \o p}
  /\ addrfile[p] # "absent"
  /\ addrfile' = [addrfile EXCEPT ![p] = "absent"]
  /\ UNCHANGED <<proxy_is_enabled, report_file, pc, atexit_registered, procs, pstate,
                 pcode, pkilled, polls, dead_polls, target_addr, exc, exit_code, log, clTodo,
                 clRet, tphase, tgrace, twaits, blocked_count, runVars, aggVars, artVars>>

\* a child exits, on its own or because of a signal; tgrace records an exit
\* that falls into the graceful wait of the terminate_process call on it
ChildExit(p) ==
  /\ pstate[p] = "running"
  /\ \E c \in ExitCodes :
       /\ pstate' = [pstate EXCEPT ![p] = "exited"]
       /\ pcode' = [pcode EXCEPT ![p] = c]
  /\ tgrace' = (tgrace \/ (pc = "cleanup" /\ tphase = "wait1" /\ clTodo # <<>> /\ Head(clTodo) = p))
  /\ UNCHANGED <<proxy_is_enabled, report_file, pc, atexit_registered, procs,
                 pkilled, addrfile, polls, dead_polls, target_addr, exc, exit_code, log, clTodo,
                 clRet, tphase, twaits, blocked_count, runVars, aggVars, artVars>>

(* ---------- readiness discovery and liveness check ---------- *)
Raise(e) == exc' = e /\ pc' = "handler"

\* run_build and the set-up up to atexit.register
Build ==
  /\ pc = "build"
  /\ \E ok \in BOOLEAN :
       IF ok
       THEN /\ pc' = "start_mock" /\ atexit_registered' = TRUE /\ exc' = exc
            /\ data_dir' = "exists"
       ELSE /\ Raise(Exc("CalledProcessError", "", 0, FALSE)) /\ atexit_registered' = FALSE
            /\ data_dir' = data_dir
  /\ UNCHANGED <<proxy_is_enabled, report_file, procs, pstate, pcode, pkilled,
                 addrfile, polls, dead_polls, target_addr, exit_code, log, clTodo, clRet,
                 tphase, tgrace, twaits, blocked_count, runVars, aggVars, outputs>>

\* start_process + procs.append
StartProc(p) ==
  /\ pc = "start_" \o p
  /\ pstate' = [pstate EXCEPT ![p] = "running"]
  /\ procs' = Append(procs, p)
  /\ polls' = 0
  /\ dead_polls' = 0
  /\ pc' = "wait_" \o p
  /\ UNCHANGED <<proxy_is_enabled, report_file, atexit_registered, pcode, pkilled,
                 addrfile, target_addr, exc, exit_code, log, clTodo, clRet, tphase,
                 tgrace, twaits, blocked_count, runVars, aggVars, artVars>>

\* path.exists() and path.stat().st_size > 0
FileReady(content) == content \in {"blank", "addr"}

\* faulty variant: the deadline test passes two polls late
WaitForFileLate(p) ==
  /\ pc = "wait_" \o p
  /\ IF polls >= MaxPolls + 2
     THEN /\ Raise(Exc("ReadinessTimeout", p, 0, pstate[p] = "exited"))
          /\ UNCHANGED <<polls, dead_polls>>
     ELSE IF FileReady(addrfile[p])
     THEN /\ pc' = "read_" \o p /\ exc' = exc /\ UNCHANGED <<polls, dead_polls>>
     ELSE /\ polls' = polls + 1 /\ pc' = pc /\ exc' = exc
          /\ dead_polls' = IF pstate[p] = "exited" THEN dead_polls + 1 ELSE dead_polls
  /\ UNCHANGED <<proxy_is_enabled, report_file, atexit_registered, procs, pstate,
                 pcode, pkilled, addrfile, target_addr, exit_code, log, clTodo,
                 clRet, tphase, tgrace, twaits, blocked_count, runVars, aggVars, artVars>>

\* one iteration of the loop of wait_for_file: the deadline lies MaxPolls
\* polling intervals after the call, each sleep lasts one interval
WaitForFile(p) ==
  /\ pc = "wait_" \o p
  /\ IF polls >= MaxPolls
     THEN /\ Raise(Exc("ReadinessTimeout", p, 0, pstate[p] = "exited"))
          /\ UNCHANGED <<polls, dead_polls>>
     ELSE IF FileReady(addrfile[p])
     THEN /\ pc' = "read_" \o p /\ exc' = exc /\ UNCHANGED <<polls, dead_polls>>
     ELSE /\ polls' = polls + 1 /\ pc' = pc /\ exc' = exc
          /\ dead_polls' = IF pstate[p] = "exited" THEN dead_polls + 1 ELSE dead_polls
  /\ UNCHANGED <<proxy_is_enabled, report_file, atexit_registered, procs, pstate,
                 pcode, pkilled, addrfile, target_addr, exit_code, log, clTodo,
                 clRet, tphase, tgrace, twaits, blocked_count, runVars, aggVars, artVars>>

\* read_addr_file after wait_for_file returned: read_text().strip()
ReadAddr(p) ==
  /\ pc = "read_" \o p
  /\ CASE addrfile[p] = "addr" -> pc' = "check_" \o p /\ exc' = exc
       [] addrfile[p] = "absent" ->
            Raise(Exc("FileNotFoundError", p, 0, pstate[p] = "exited"))
       [] OTHER -> Raise(Exc("AddressFileEmpty", p, 0, pstate[p] = "exited"))
  /\ UNCHANGED <<proxy_is_enabled, report_file, atexit_registered, procs, pstate,
                 pcode, pkilled, addrfile, polls, dead_polls, target_addr, exit_code, log,
                 clTodo, clRet, tphase, tgrace, twaits, blocked_count, runVars, aggVars, artVars>>

\* faulty variant: the proxy is never started, the runner is pointed at the mock
ensure_process_alive_no_proxy(p) ==
  /\ pc = "check_" \o p
  /\ IF pstate[p] = "exited"
     THEN /\ Raise(Exc("ProcessExitedEarly", p, pcode[p], TRUE))
          /\ target_addr' = target_addr
     ELSE /\ exc' = exc
          /\ pc' = "start_runner" /\ target_addr' = p
  /\ UNCHANGED <<proxy_is_enabled, report_file, atexit_registered, procs, pstate,
                 pcode, pkilled, addrfile, polls, dead_polls, exit_code, log, clTodo, clRet,
                 tphase, tgrace, twaits, blocked_count, runVars, aggVars, artVars>>

\* ensure_process_alive, then the choice of the runner's target
ensure_process_alive(p) ==
  /\ pc = "check_" \o p
  /\ IF pstate[p] = "exited"
     THEN /\ Raise(Exc("ProcessExitedEarly", p, pcode[p], TRUE))
          /\ target_addr' = target_addr
     ELSE /\ exc' = exc
          /\ IF p = "mock" /\ proxy_is_enabled
             THEN pc' = "start_proxy" /\ target_addr' = target_addr
             ELSE pc' = "start_runner" /\ target_addr' = p
  /\ UNCHANGED <<proxy_is_enabled, report_file, atexit_registered, procs, pstate,
                 pcode, pkilled, addrfile, polls, dead_polls, exit_code, log, clTodo, clRet,
                 tphase, tgrace, twaits, blocked_count, runVars, aggVars, artVars>>

(* ---------- process supervisor: terminate_process and cleanup ---------- *)
RECURSIVE Reverse(_)
Reverse(s) == IF s = <<>> THEN <<>> ELSE Append(Reverse(Tail(s)), Head(s))

\* faulty variant: cleanup walks procs in start order
CleanupOrderForward(ps) == ps

\* the order in which cleanup walks procs: reversed(procs)
CleanupOrder(ps) == Reverse(ps)

\* Popen.send_signal / terminate / kill inside try ... except Exception: pass
SendSignal(st) == IF st = "running" THEN "delivered" ELSE "swallowed"

\* faulty variant: the result of the graceful wait is ignored
WaitOutcomeIgnored(st) == "TimeoutExpired"

\* p.wait(timeout=timeout_s): returns if the child has exited, else TimeoutExpired
WaitOutcome(st) == IF st = "exited" THEN "returned" ELSE "TimeoutExpired"

LogEntry(ev, p, alive) == [ev |-> ev, proc |-> p, alive |-> alive]

\* cleanup(keep) is entered: for pr in reversed(procs)
CallCleanup(ret) ==
  /\ pc' = "cleanup"
  /\ clTodo' = CleanupOrder(procs)
  /\ clRet' = ret
  /\ tphase' = "poll"

\* faulty variant: terminate_process does not test whether the process exited
TermPollNoCheck ==
  /\ pc = "cleanup" /\ clTodo # <<>> /\ tphase = "poll"
  /\ LET p == Head(clTodo) IN
       /\ clTodo' = clTodo /\ tphase' = "term"
       /\ log' = Append(log, LogEntry("CALL", p, pstate[p] = "running"))
  /\ tgrace' = FALSE /\ twaits' = 0
  /\ UNCHANGED <<proxy_is_enabled, report_file, pc, atexit_registered, procs, pstate,
                 pcode, pkilled, addrfile, polls, dead_polls, target_addr, exc, exit_code,
                 clRet, blocked_count, runVars, aggVars, artVars>>

\* terminate_process: if p.poll() is not None: return
TermPoll ==
  /\ pc = "cleanup" /\ clTodo # <<>> /\ tphase = "poll"
  /\ LET p == Head(clTodo) IN
       IF pstate[p] = "exited"
       THEN /\ clTodo' = Tail(clTodo) /\ tphase' = "poll"
            /\ log' = log \o <<LogEntry("CALL", p, FALSE), LogEntry("DONE", p, FALSE)>>
       ELSE /\ clTodo' = clTodo /\ tphase' = "term"
            /\ log' = Append(log, LogEntry("CALL", p, TRUE))
  /\ tgrace' = FALSE /\ twaits' = 0
  /\ UNCHANGED <<proxy_is_enabled, report_file, pc, atexit_registered, procs, pstate,
                 pcode, pkilled, addrfile, polls, dead_polls, target_addr, exc, exit_code,
                 clRet, blocked_count, runVars, aggVars, artVars>>

\* terminate_process: the graceful stop signal
TermSignal ==
  /\ pc = "cleanup" /\ clTodo # <<>> /\ tphase = "term"
  /\ LET p == Head(clTodo) IN
       /\ SendSignal(pstate[p]) \in {"delivered", "swallowed"}
       /\ log' = Append(log, LogEntry("SIGTERM", p, SendSignal(pstate[p]) = "delivered"))
  /\ tphase' = "wait1"
  /\ UNCHANGED <<proxy_is_enabled, report_file, pc, atexit_registered, procs, pstate,
                 pcode, pkilled, addrfile, polls, dead_polls, target_addr, exc, exit_code,
                 clTodo, clRet, tgrace, twaits, blocked_count, runVars, aggVars, artVars>>

\* terminate_process: the first p.wait(timeout)
TermWait1 ==
  /\ pc = "cleanup" /\ clTodo # <<>> /\ tphase = "wait1"
  /\ twaits' = twaits + 1
  /\ LET p == Head(clTodo) IN
       IF WaitOutcome(pstate[p]) = "returned"
       THEN /\ clTodo' = Tail(clTodo) /\ tphase' = "poll"
            /\ log' = Append(log, LogEntry("DONE", p, FALSE))
       ELSE /\ clTodo' = clTodo /\ tphase' = "kill" /\ log' = log
  /\ UNCHANGED <<proxy_is_enabled, report_file, pc, atexit_registered, procs, pstate,
                 pcode, pkilled, addrfile, polls, dead_polls, target_addr, exc, exit_code,
                 clRet, tgrace, blocked_count, runVars, aggVars, artVars>>

\* terminate_process: the forceful kill signal
TermKill ==
  /\ pc = "cleanup" /\ clTodo # <<>> /\ tphase = "kill"
  /\ LET p == Head(clTodo) IN
       /\ SendSignal(pstate[p]) \in {"delivered", "swallowed"}
       /\ log' = Append(log, LogEntry("SIGKILL", p, SendSignal(pstate[p]) = "delivered"))
       /\ pkilled' = [pkilled EXCEPT ![p] = @ \/ SendSignal(pstate[p]) = "delivered"]
  /\ tphase' = "wait2"
  /\ UNCHANGED <<proxy_is_enabled, report_file, pc, atexit_registered, procs, pstate,
                 pcode, addrfile, polls, dead_polls, target_addr, exc, exit_code,
                 clTodo, clRet, tgrace, twaits, blocked_count, runVars, aggVars, artVars>>

\* terminate_process: the second p.wait(timeout), every exception swallowed
TermWait2 ==
  /\ pc = "cleanup" /\ clTodo # <<>> /\ tphase = "wait2"
  /\ twaits' = twaits + 1
  /\ LET p == Head(clTodo) IN
       /\ log' = Append(log, LogEntry("DONE", p, WaitOutcome(pstate[p]) # "returned"))
  /\ clTodo' = Tail(clTodo) /\ tphase' = "poll"
  /\ UNCHANGED <<proxy_is_enabled, report_file, pc, atexit_registered, procs, pstate,
                 pcode, pkilled, addrfile, polls, dead_polls, target_addr, exc, exit_code,
                 clRet, tgrace, blocked_count, runVars, aggVars, artVars>>

\* the keep argument of a cleanup call: True before the runner-failed error,
\* keep_data = bool(args.report_file) after a run and in the exit-time hook
CleanupKeep(ret) == IF ret = "raise_runner" THEN TRUE ELSE report_file

\* the end of cleanup: `if keep: return`, and nothing follows it; no
\* statement of the program removes data_dir
DataDirAfterCleanup(keep, d) == IF keep THEN d ELSE d

\* cleanup returns to its caller
CleanupReturn ==
  /\ pc = "cleanup" /\ clTodo = <<>>
  /\ data_dir' = DataDirAfterCleanup(CleanupKeep(clRet), data_dir)
  /\ pc' = clRet
  /\ UNCHANGED <<proxy_is_enabled, report_file, atexit_registered, procs, pstate,
                 pcode, pkilled, addrfile, polls, dead_polls, target_addr, exc, exit_code, log,
                 clTodo, clRet, tphase, tgrace, twaits, blocked_count, runVars, aggVars, outputs>>

(* ---------- the runner (external binary) ---------- *)
\* lines the runner may put on its stdout: blank, not JSON, JSON that is not
\* an object, an object of unknown type, a summary, a final
Lines == {" ", "not json", "42", "{\"type\": \"other\"}",
          "{\"type\": \"summary\"}", "{\"type\": \"final\"}"}

\* The runner's stdout is followed while the loop reads it (pc = "stream").
RunnerWrite ==
  /\ rstate = "running" /\ ~rclosed
  /\ pc = "stream"
  /\ Len(written) < line_budget
  /\ \E l \in Lines :
       /\ written' = Append(written, l)
       /\ pipe' = Append(pipe, l)
  /\ UNCHANGED <<drvVars, rstate, rclosed, rcode, rc, file, events, last_summary,
                 spin, line_budget, aggVars, artVars>>

RunnerCloseStdout ==
  /\ rstate = "running" /\ ~rclosed
  /\ pc = "stream"
  /\ rclosed' = TRUE
  /\ UNCHANGED <<drvVars, rstate, rcode, rc, written, pipe, file, events,
                 last_summary, spin, line_budget, aggVars, artVars>>

RunnerExit ==
  /\ rstate = "running"
  /\ \E c \in ExitCodes : rcode' = c
  /\ rstate' = "exited"
  /\ rclosed' = TRUE
  /\ UNCHANGED <<drvVars, rc, written, pipe, file, events, last_summary, spin, line_budget, aggVars, artVars>>

(* ---------- streaming event pipeline ---------- *)
\* str.strip()
strip(line) == IF line = " " THEN "" ELSE line

\* json.loads: the decoded value, or the JSONDecodeError it raises
json_loads(s) ==
  CASE s = "42" -> JNum(42)
    [] s = "{\"type\": \"other\"}" -> JObj([type |-> "other"])
    [] s = "{\"type\": \"summary\"}" -> JObj([type |-> "summary"])
    [] s = "{\"type\": \"final\"}" -> JObj([type |-> "final"])
    [] OTHER -> [j |-> "JSONDecodeError"]

\* parse_json_line: None (JNull) for a blank or undecodable line
parse_json_line(line) ==
  LET s == strip(line) IN
    IF s = "" THEN JNull
    ELSE IF json_loads(s).j = "JSONDecodeError" THEN JNull
    ELSE json_loads(s)

\* runner.stdout.readline() on the pipe: the next line, "" at end of file;
\* it blocks while the pipe is empty and its write end is open
ReadlineReady(pp, closed) == pp # <<>> \/ closed

\* faulty variant: blank lines are not written to the file
PersistLineSkipBlank(f, line) == IF strip(line) = "" THEN f ELSE Append(f, line)

\* f_jsonl.write(line); f_jsonl.flush()
PersistLine(f, line) == Append(f, line)

\* if ev is not None: events.append(ev)
AppendEvent(evs, ev) == IF ev # JNull THEN Append(evs, ev) ELSE evs

\* the exit test of the loop: if code is not None: break
LoopBreaks(st) == st = "exited"

StartRunner ==
  /\ pc = "start_runner"
  /\ rstate' = "running"
  /\ pc' = "stream"
  /\ UNCHANGED <<proxy_is_enabled, report_file, atexit_registered, procs, pstate,
                 pcode, pkilled, addrfile, polls, dead_polls, target_addr, exc, exit_code, log,
                 clTodo, clRet, tphase, tgrace, twaits, blocked_count,
                 rclosed, rcode, rc, written, pipe, file, events, last_summary,
                 spin, line_budget, aggVars, artVars>>

\* one iteration of the while True loop with a line read
StreamLine ==
  /\ pc = "stream"
  /\ ReadlineReady(pipe, rclosed)
  /\ pipe # <<>>
  /\ LET line == Head(pipe)
         ev == parse_json_line(line)
     IN /\ pipe' = Tail(pipe)
        /\ file' = PersistLine(file, line)
        /\ events' = AppendEvent(events, ev)
        /\ IF ev # JNull /\ ~IsDict(ev)
           THEN /\ Raise(Exc("AttributeError:ev.get", "", 0, FALSE))
                /\ last_summary' = last_summary
           ELSE /\ pc' = pc /\ exc' = exc
                /\ last_summary' = IF ev # JNull /\ Get(ev.o, "type", "") = "summary"
                                   THEN ev ELSE last_summary
  /\ UNCHANGED <<proxy_is_enabled, report_file, atexit_registered, procs, pstate,
                 pcode, pkilled, addrfile, polls, dead_polls, target_addr, exit_code, log,
                 clTodo, clRet, tphase, tgrace, twaits, blocked_count,
                 rstate, rclosed, rcode, rc, written, spin, line_budget, aggVars, artVars>>

\* one iteration with readline() at end of file: poll, spinner, break or sleep
StreamIdle ==
  /\ pc = "stream"
  /\ ReadlineReady(pipe, rclosed)
  /\ pipe = <<>>
  /\ \E elapsed \in BOOLEAN :
       /\ elapsed => spin < MaxSpins
       /\ spin = 0 => elapsed
       /\ spin' = IF elapsed THEN spin + 1 ELSE spin
  /\ pc' = IF LoopBreaks(rstate) THEN "runner_wait" ELSE pc
  /\ UNCHANGED <<proxy_is_enabled, report_file, atexit_registered, procs, pstate,
                 pcode, pkilled, addrfile, polls, dead_polls, target_addr, exc, exit_code, log,
                 clTodo, clRet, tphase, tgrace, twaits, blocked_count,
                 rstate, rclosed, rcode, rc, written, pipe, file, events,
                 last_summary, line_budget, aggVars, artVars>>

(* ---------- the driver after the loop ---------- *)
\* faulty variant: the exit status of the runner is not looked at
RunnerWaitIgnoreRc ==
  /\ pc = "runner_wait"
  /\ rstate = "exited"
  /\ rc' = rcode
  /\ pc' = "post" /\ UNCHANGED <<clTodo, clRet, tphase>>
  /\ UNCHANGED <<proxy_is_enabled, report_file, atexit_registered, procs, pstate,
                 pcode, pkilled, addrfile, polls, dead_polls, target_addr, exc, exit_code, log,
                 tgrace, twaits, blocked_count,
                 rstate, rclosed, rcode, written, pipe, file, events,
                 last_summary, spin, line_budget, aggVars, artVars>>

\* rc = runner.wait(); if rc != 0: cleanup(keep=True); raise
RunnerWait ==
  /\ pc = "runner_wait"
  /\ rstate = "exited"
  /\ rc' = rcode
  /\ IF rcode # 0
     THEN CallCleanup("raise_runner")
     ELSE pc' = "post" /\ UNCHANGED <<clTodo, clRet, tphase>>
  /\ UNCHANGED <<proxy_is_enabled, report_file, atexit_registered, procs, pstate,
                 pcode, pkilled, addrfile, polls, dead_polls, target_addr, exc, exit_code, log,
                 tgrace, twaits, blocked_count,
                 rstate, rclosed, rcode, written, pipe, file, events,
                 last_summary, spin, line_budget, aggVars, artVars>>

RaiseRunnerFailed ==
  /\ pc = "raise_runner"
  /\ Raise(Exc("RunnerFailed", "runner", rc, TRUE))
  /\ UNCHANGED <<proxy_is_enabled, report_file, atexit_registered, procs, pstate,
                 pcode, pkilled, addrfile, polls, dead_polls, target_addr, exit_code, log,
                 clTodo, clRet, tphase, tgrace, twaits, blocked_count, runVars, aggVars, artVars>>

\* what the request of the probe may meet at the mock
ProbeResponses == {"refused", "timeout", "status 500", "not an integer", "count"}

\* fetch_blocked_events_count_via_mock: split_host_port(mock_addr) comes
\* before the try and raises ValueError on a text without ":port"; a failed
\* request, a status outside 2xx and a body that is no integer give None
fetch_blocked_events_count_via_mock(addr_has_port, response) ==
  IF ~addr_has_port THEN "ValueError"
  ELSE IF response = "count" THEN "known"
  ELSE "unknown"

\* stable summary and metrics, the blocked-events probe, the baseline step
\* (which writes the file named by args.save_baseline), then cleanup(keep_data)
PostRun ==
  /\ pc = "post"
  /\ \E addr_has_port \in BOOLEAN : \E response \in ProbeResponses :
       LET got == IF proxy_is_enabled
                  THEN fetch_blocked_events_count_via_mock(addr_has_port, response)
                  ELSE "unset"
       IN IF got = "ValueError"
          THEN /\ outputs' = outputs \cup {"summary_file"}
               /\ Raise(Exc("ValueError:split_host_port", "mock", 0, FALSE))
               /\ UNCHANGED <<blocked_count, clTodo, clRet, tphase>>
          ELSE /\ outputs' = outputs \cup {"summary_file", "baseline"}
               /\ blocked_count' = got
               /\ CallCleanup("output")
               /\ exc' = exc
  /\ UNCHANGED <<proxy_is_enabled, report_file, atexit_registered, procs, pstate,
                 pcode, pkilled, addrfile, polls, dead_polls, target_addr, exit_code, log,
                 tgrace, twaits, runVars, aggVars, data_dir>>

\* the report branch (it writes and prints the report paths, then reads
\* args.proxy_enabled, which argparse never defines) or the human output
\* ("netbench finished", the metrics, the artifacts), then return 0
Output ==
  /\ pc = "output"
  /\ IF report_file
     THEN /\ outputs' = outputs \cup {"report_paths"}
          /\ Raise(Exc("AttributeError:args.proxy_enabled", "", 0, FALSE))
          /\ exit_code' = exit_code
     ELSE /\ outputs' = outputs \cup {"finished"}
          /\ pc' = "atexit" /\ exit_code' = 0 /\ exc' = exc
  /\ UNCHANGED <<proxy_is_enabled, report_file, atexit_registered, procs, pstate,
                 pcode, pkilled, addrfile, polls, dead_polls, target_addr, log,
                 clTodo, clRet, tphase, tgrace, twaits, blocked_count, runVars, aggVars, data_dir>>

\* __main__: except Exception as exc: eprint("error:", exc); SystemExit(1)
Handler ==
  /\ pc = "handler"
  /\ log' = Append(log, LogEntry("ERRPRINT", exc.kind, FALSE))
  /\ exit_code' = 1
  /\ pc' = "atexit"
  /\ UNCHANGED <<proxy_is_enabled, report_file, atexit_registered, procs, pstate,
                 pcode, pkilled, addrfile, polls, dead_polls, target_addr, exc,
                 clTodo, clRet, tphase, tgrace, twaits, blocked_count, runVars, aggVars, artVars>>

\* faulty variant: no exit-time hook is registered
AtExitNoHook ==
  /\ pc = "atexit"
  /\ pc' = "exited"
  /\ UNCHANGED <<proxy_is_enabled, report_file, atexit_registered, procs, pstate,
                 pcode, pkilled, addrfile, polls, dead_polls, target_addr, exc, exit_code, log,
                 clTodo, clRet, tphase, tgrace, twaits, blocked_count, runVars, aggVars, artVars>>

\* interpreter exit: the registered hook runs cleanup(keep_data)
AtExit ==
  /\ pc = "atexit"
  /\ IF atexit_registered
     THEN CallCleanup("exited")
     ELSE pc' = "exited" /\ UNCHANGED <<clTodo, clRet, tphase>>
  /\ UNCHANGED <<proxy_is_enabled, report_file, atexit_registered, procs, pstate,
                 pcode, pkilled, addrfile, polls, dead_polls, target_addr, exc, exit_code, log,
                 tgrace, twaits, blocked_count, runVars, aggVars, artVars>>

\* the paths the message of an error lists: the runner-failed error lists the
\* data dir, the event stream and the three logs; the errors of
\* wait_for_file and read_addr_file give the path of the address file
ArtifactsNamed(e) ==
  IF e.kind = "RunnerFailed"
  THEN {"data dir", "jsonl", "mock log", "proxy log", "run log"}
  ELSE IF e.kind \in {"ReadinessTimeout", "AddressFileEmpty", "FileNotFoundError"}
  THEN {"addr file of " \o e.proc}
  ELSE {}

(* ---------- specification of the driver ---------- *)
Init ==
  /\ proxy_is_enabled \in BOOLEAN
  /\ report_file \in BOOLEAN
  /\ pc = "build"
  /\ atexit_registered = FALSE
  /\ procs = <<>>
  /\ pstate = [p \in ProcSet |-> "none"]
  /\ pcode = [p \in ProcSet |-> 0]
  /\ pkilled = [p \in ProcSet |-> FALSE]
  /\ addrfile = [p \in ProcSet |-> "absent"]
  /\ polls = 0
  /\ dead_polls = 0
  /\ target_addr = "none"
  /\ exc = NoExc
  /\ exit_code = -1
  /\ log = <<>>
  /\ clTodo = <<>>
  /\ clRet = "none"
  /\ tphase = "poll"
  /\ tgrace = FALSE
  /\ twaits = 0
  /\ blocked_count = "unset"
  /\ rstate = "none"
  /\ rclosed = FALSE
  /\ rcode = 0
  /\ rc = -1
  /\ written = <<>>
  /\ pipe = <<>>
  /\ file = <<>>
  /\ events = <<>>
  /\ last_summary = JNull
  /\ spin = 0
  /\ line_budget = MaxLines
  /\ aggEvents = <<>>
  /\ aggOut = JNull
  /\ sumOut = <<>>
  /\ kvOut = JNull
  /\ deltaIn = JNull
  /\ deltaOut = <<>>
  /\ data_dir = "none"
  /\ outputs = {}

Next ==
  \/ Build
  \/ \E p \in ProcSet : StartProc(p)
  \/ \E p \in ProcSet : WaitForFile(p)
  \/ \E p \in ProcSet : ReadAddr(p)
  \/ \E p \in ProcSet : ensure_process_alive(p)
  \/ \E p \in ProcSet : ChildCreateFile(p)
  \/ \E p \in ProcSet : ChildWriteFile(p)
  \/ \E p \in ProcSet : ChildRemoveFile(p)
  \/ \E p \in ProcSet : ChildExit(p)
  \/ StartRunner
  \/ RunnerWrite
  \/ RunnerCloseStdout
  \/ RunnerExit
  \/ StreamLine
  \/ StreamIdle
  \/ RunnerWait
  \/ RaiseRunnerFailed
  \/ PostRun
  \/ Output
  \/ Handler
  \/ AtExit
  \/ TermPoll
  \/ TermSignal
  \/ TermWait1
  \/ TermKill
  \/ TermWait2
  \/ CleanupReturn

Spec == Init /\ [][Next]_vars

(* ---------- specification of the streaming pipeline alone ---------- *)
\* The driver has resolved the mock (direct topology, human output) and is
\* about to start the runner, a state Spec reaches; the supervised processes
\* stay as they are and the runner has more lines to write than in Spec.
InitStream ==
  /\ proxy_is_enabled = FALSE
  /\ report_file = FALSE
  /\ pc = "start_runner"
  /\ atexit_registered = TRUE
  /\ procs = <<"mock">>
  /\ pstate = [p \in ProcSet |-> IF p = "mock" THEN "running" ELSE "none"]
  /\ pcode = [p \in ProcSet |-> 0]
  /\ pkilled = [p \in ProcSet |-> FALSE]
  /\ addrfile = [p \in ProcSet |-> IF p = "mock" THEN "addr" ELSE "absent"]
  /\ polls = 0
  /\ dead_polls = 0
  /\ target_addr = "mock"
  /\ exc = NoExc
  /\ exit_code = -1
  /\ log = <<>>
  /\ clTodo = <<>>
  /\ clRet = "none"
  /\ tphase = "poll"
  /\ tgrace = FALSE
  /\ twaits = 0
  /\ blocked_count = "unset"
  /\ rstate = "none"
  /\ rclosed = FALSE
  /\ rcode = 0
  /\ rc = -1
  /\ written = <<>>
  /\ pipe = <<>>
  /\ file = <<>>
  /\ events = <<>>
  /\ last_summary = JNull
  /\ spin = 0
  /\ line_budget = MaxStreamLines
  /\ aggEvents = <<>>
  /\ aggOut = JNull
  /\ sumOut = <<>>
  /\ kvOut = JNull
  /\ deltaIn = JNull
  /\ deltaOut = <<>>
  /\ data_dir = "exists"
  /\ outputs = {}

NextStream ==
  \/ StartRunner
  \/ RunnerWrite
  \/ RunnerCloseStdout
  \/ RunnerExit
  \/ StreamLine
  \/ StreamIdle

SpecStream == InitStream /\ [][NextStream]_vars

(* ---------- metrics aggregator ---------- *)
\* faulty variant: the first event of the type is taken instead of the last
RECURSIVE FirstOfType(_, _)
FirstOfType(evs, ty) ==
  IF evs = <<>> THEN JNull
  ELSE IF Get(Head(evs), "type", "") = ty THEN Head(evs)
  ELSE FirstOfType(Tail(evs), ty)

\* next((e for e in reversed(events) if e.get("type") == ty), None)
RECURSIVE LastOfType(_, _)
LastOfType(evs, ty) ==
  IF evs = <<>> THEN JNull
  ELSE IF Get(evs[Len(evs)], "type", "") = ty THEN evs[Len(evs)]
  ELSE LastOfType(SubSeq(evs, 1, Len(evs) - 1), ty)

\* t = e.get("total"); isinstance(t, dict) and ("total" in t or "ok" in t)
TotalsSrc(e) ==
  IF e # JNull /\ "total" \in DOMAIN e /\ IsDict(e["total"])
       /\ ("total" \in DOMAIN e["total"].o \/ "ok" \in DOMAIN e["total"].o)
  THEN e["total"].o
  ELSE JNull

RECURSIVE SumRps(_)
SumRps(evs) == IF evs = <<>> THEN 0 ELSE Get(Head(evs), "rps", 0) + SumRps(Tail(evs))

\* faulty variant: the phase of a summary is not looked at
IsAnySummary(e) == Get(e, "type", "") = "summary"

\* s.get("type") == "summary" and s.get("phase") == "main"
IsMainSummary(e) == Get(e, "type", "") = "summary" /\ Get(e, "phase", "") = "main"

\* a quotient a / b of two floats, kept exact
Ratio(a, b) == [num |-> a, den |-> b]

\* faulty variant: the quotient is taken whatever the total is
OkRateUnguarded(total_ok, total_total) == Ratio(total_ok, total_total)

\* ok_rate = (total_ok / total_total) if total_total > 0 else 0.0
OkRate(total_ok, total_total) ==
  IF total_total > 0 THEN Ratio(total_ok, total_total) ELSE Ratio(0, 1)

compute_aggregate_from_events(evs) ==
  LET fromFinal == TotalsSrc(LastOfType(evs, "final"))
      totals_src == IF fromFinal # JNull THEN fromFinal
                    ELSE TotalsSrc(LastOfType(evs, "summary"))
      total_total == IF totals_src = JNull THEN 0 ELSE Get(totals_src, "total", 0)
      total_ok == IF totals_src = JNull THEN 0 ELSE Get(totals_src, "ok", 0)
      http_fail == IF totals_src = JNull THEN 0 ELSE Get(totals_src, "http_fail", 0)
      other_fail == IF totals_src = JNull THEN 0 ELSE Get(totals_src, "other_fail", 0)
      main_summaries == SelectSeq(evs, IsMainSummary)
  IN [avg_main_rps |-> IF main_summaries # <<>>
                       THEN Ratio(SumRps(main_summaries), Len(main_summaries))
                       ELSE Ratio(0, 1),
      total |-> total_total,
      ok |-> total_ok,
      http_fail |-> http_fail,
      other_fail |-> other_fail,
      ok_rate |-> OkRate(total_ok, total_total)]

(* ---------- stable summary ---------- *)
\* read_totals_from_container: None for no event; the four counters of a
\* total object (a missing one read as 0), whatever its keys; else the flat
\* counters of the event itself if it has a total or an ok key; else None
read_totals_from_container(container) ==
  IF container = JNull THEN JNull
  ELSE IF "total" \in DOMAIN container /\ IsDict(container["total"])
  THEN LET t == container["total"].o
       IN [total |-> Get(t, "total", 0), ok |-> Get(t, "ok", 0),
           http_fail |-> Get(t, "http_fail", 0), other_fail |-> Get(t, "other_fail", 0)]
  ELSE IF "total" \in DOMAIN container \/ "ok" \in DOMAIN container
  THEN [total |-> IF "total" \in DOMAIN container THEN container["total"].n ELSE 0,
        ok |-> Get(container, "ok", 0),
        http_fail |-> Get(container, "http_fail", 0),
        other_fail |-> Get(container, "other_fail", 0)]
  ELSE JNull

\* the sum of one interval counter over all summaries whose interval is an object
RECURSIVE SumIntervalCounters(_, _)
SumIntervalCounters(evs, k) ==
  IF evs = <<>> THEN 0
  ELSE LET e == Head(evs)
       IN (IF Get(e, "type", "") = "summary" /\ "interval" \in DOMAIN e
                /\ IsDict(e["interval"])
           THEN Get(e["interval"].o, k, 0) ELSE 0)
          + SumIntervalCounters(Tail(evs), k)

DecimalDigits == <<"0", "1", "2", "3", "4", "5", "6", "7", "8", "9">>

\* faulty variant: the digits come out in reverse order
RECURSIVE FormatIntReversed(_)
FormatIntReversed(n) ==
  IF n < 10 THEN <<DecimalDigits[n + 1]>>
  ELSE <<DecimalDigits[(n % 10) + 1]>> \o FormatIntReversed(n \div 10)

\* the text of a natural number in an f-string, as a sequence of characters
RECURSIVE FormatInt(_)
FormatInt(n) ==
  IF n < 10 THEN <<DecimalDigits[n + 1]>>
  ELSE FormatInt(n \div 10) \o <<DecimalDigits[(n % 10) + 1]>>

\* one line f"{key}={n}" with the line feed that ends it
KvLine(key, n) == key \o <<"=">> \o FormatInt(n) \o <<"\n">>

\* the text returned, as a sequence of characters: totals of the last final,
\* else of the last summary, else the interval sums; always the four lines
render_diff_friendly_summary_from_events(evs) ==
  LET fromFinal == read_totals_from_container(LastOfType(evs, "final"))
      fromSummary == read_totals_from_container(LastOfType(evs, "summary"))
      totals == IF fromFinal # JNull THEN fromFinal
                ELSE IF fromSummary # JNull THEN fromSummary
                ELSE [total |-> SumIntervalCounters(evs, "total"),
                      ok |-> SumIntervalCounters(evs, "ok"),
                      http_fail |-> SumIntervalCounters(evs, "http_fail"),
                      other_fail |-> SumIntervalCounters(evs, "other_fail")]
  IN KvLine(<<"t", "o", "t", "a", "l">>, totals.total)
       \o KvLine(<<"o", "k">>, totals.ok)
       \o KvLine(<<"h", "t", "t", "p", "_", "f", "a", "i", "l">>, totals.http_fail)
       \o KvLine(<<"o", "t", "h", "e", "r", "_", "f", "a", "i", "l">>, totals.other_fail)

(* ---------- key=value loader ---------- *)
\* position of the first occurrence of character c in text t, 0 if none
IndexOf(t, c) ==
  IF \E i \in 1..Len(t) : t[i] = c
  THEN CHOOSE i \in 1..Len(t) : t[i] = c /\ \A k \in 1..(i - 1) : t[k] # c
  ELSE 0

\* str.splitlines(): the lines without their line feeds, no empty last line
RECURSIVE splitlines(_)
splitlines(t) ==
  IF t = <<>> THEN <<>>
  ELSE LET i == IndexOf(t, "\n")
       IN IF i = 0 THEN <<t>>
          ELSE <<SubSeq(t, 1, i - 1)>> \o splitlines(SubSeq(t, i + 1, Len(t)))

\* str.strip() of a text: white space removed at both ends
RECURSIVE StripText(_)
StripText(t) ==
  IF t = <<>> THEN <<>>
  ELSE IF Head(t) \in {" ", "\t", "\r", "\n"} THEN StripText(Tail(t))
  ELSE IF t[Len(t)] \in {" ", "\t", "\r", "\n"} THEN StripText(SubSeq(t, 1, Len(t) - 1))
  ELSE t

\* the characters of a key joined into one string
RECURSIVE JoinChars(_)
JoinChars(t) == IF t = <<>> THEN "" ELSE Head(t) \o JoinChars(Tail(t))

\* value of a text made of decimal digits only (read left to right)
RECURSIVE DigitsValue(_)
DigitsValue(t) ==
  IF t = <<>> THEN 0
  ELSE 10 * DigitsValue(SubSeq(t, 1, Len(t) - 1))
       + (CHOOSE d \in 0..9 : DecimalDigits[d + 1] = t[Len(t)])

\* float(v): the number of a text of decimal digits; ValueError (JNull) for
\* the empty text and for every other text over letters, "_", "=" and digits
\* that the summary can hold, except digits joined by single underscores,
\* which no rendered value contains
ParseFloat(v) ==
  IF v # <<>> /\ \A i \in 1..Len(v) : \E d \in 1..10 : DecimalDigits[d] = v[i]
  THEN JNum(DigitsValue(v))
  ELSE JNull

\* one line of parse_kv_summary: JNull if the line is skipped, else key and value
ParseKvLine(raw) ==
  LET line == StripText(raw)
      i == IndexOf(line, "=")
  IN IF line = <<>> \/ i = 0 THEN JNull
     ELSE LET k == StripText(SubSeq(line, 1, i - 1))
              v == ParseFloat(StripText(SubSeq(line, i + 1, Len(line))))
          IN IF v = JNull THEN JNull ELSE [k |-> JoinChars(k), v |-> v.n]

\* parse_kv_summary: the dict of the parsed lines, a later line of a key
\* replacing an earlier one
parse_kv_summary(text) ==
  LET lines == splitlines(text)
      Valid == {i \in 1..Len(lines) : ParseKvLine(lines[i]) # JNull}
      Keys == {ParseKvLine(lines[i]).k : i \in Valid}
      LastOf(k) == CHOOSE i \in Valid :
                     /\ ParseKvLine(lines[i]).k = k
                     /\ \A j \in Valid : ParseKvLine(lines[j]).k = k => j <= i
  IN [k \in Keys |-> ParseKvLine(lines[LastOf(k)]).v]

(* ---------- inputs of the aggregation functions ---------- *)
Counters(t, o, h, f) == JObj([total |-> t, ok |-> o, http_fail |-> h, other_fail |-> f])

\* decoded events the aggregation is applied to: finals with full, zero,
\* empty, partial, flat and missing totals, summaries with and without
\* running totals, and an object of another type
AggEventSet ==
  { [type |-> "final", total |-> Counters(3, 2, 1, 0)],
    [type |-> "final", total |-> Counters(2, 2, 0, 0)],
    [type |-> "final", total |-> Counters(50, 45, 5, 0)],
    [type |-> "final", total |-> Counters(0, 0, 0, 0)],
    [type |-> "final", total |-> JObj(<<>>)],
    [type |-> "final", total |-> JObj([http_fail |-> 1])],
    [type |-> "final", total |-> JObj([ok |-> 2])],
    [type |-> "final", total |-> JNum(3), ok |-> 2],
    [type |-> "final"],
    [type |-> "summary", phase |-> "main", rps |-> 100,
     total |-> Counters(1, 1, 0, 0), interval |-> Counters(1, 1, 0, 0)],
    [type |-> "summary", phase |-> "main", rps |-> 50,
     total |-> Counters(4, 2, 1, 1), interval |-> Counters(3, 1, 1, 1)],
    [type |-> "summary", phase |-> "warmup", rps |-> 10,
     interval |-> Counters(2, 1, 1, 0)],
    [type |-> "other"] }

\* compute_aggregate_from_events is applied to the input
Aggregate ==
  /\ aggOut = JNull
  /\ aggOut' = compute_aggregate_from_events(aggEvents)
  /\ UNCHANGED <<drvVars, runVars, aggEvents, sumOut, kvOut, deltaIn, deltaOut, artVars>>

\* render_diff_friendly_summary_from_events is applied to the input
Render ==
  /\ sumOut = <<>>
  /\ sumOut' = render_diff_friendly_summary_from_events(aggEvents)
  /\ UNCHANGED <<drvVars, runVars, aggEvents, aggOut, kvOut, deltaIn, deltaOut, artVars>>

\* parse_kv_summary is applied to the rendered text
LoadSummary ==
  /\ sumOut # <<>> /\ kvOut = JNull
  /\ kvOut' = parse_kv_summary(sumOut)
  /\ UNCHANGED <<drvVars, runVars, aggEvents, aggOut, sumOut, deltaIn, deltaOut, artVars>>

\* the next input is taken up
AggExtend ==
  /\ Len(aggEvents) < MaxAggEvents
  /\ \E e \in AggEventSet : aggEvents' = Append(aggEvents, e)
  /\ aggOut' = JNull
  /\ sumOut' = <<>>
  /\ kvOut' = JNull
  /\ UNCHANGED <<drvVars, runVars, deltaIn, deltaOut, artVars>>

InitAgg ==
  /\ proxy_is_enabled = FALSE
  /\ report_file = FALSE
  /\ pc = "build"
  /\ atexit_registered = FALSE
  /\ procs = <<>>
  /\ pstate = [p \in ProcSet |-> "none"]
  /\ pcode = [p \in ProcSet |-> 0]
  /\ pkilled = [p \in ProcSet |-> FALSE]
  /\ addrfile = [p \in ProcSet |-> "absent"]
  /\ polls = 0
  /\ dead_polls = 0
  /\ target_addr = "none"
  /\ exc = NoExc
  /\ exit_code = -1
  /\ log = <<>>
  /\ clTodo = <<>>
  /\ clRet = "none"
  /\ tphase = "poll"
  /\ tgrace = FALSE
  /\ twaits = 0
  /\ blocked_count = "unset"
  /\ rstate = "none"
  /\ rclosed = FALSE
  /\ rcode = 0
  /\ rc = -1
  /\ written = <<>>
  /\ pipe = <<>>
  /\ file = <<>>
  /\ events = <<>>
  /\ last_summary = JNull
  /\ spin = 0
  /\ line_budget = 0
  /\ aggEvents = <<>>
  /\ aggOut = JNull
  /\ sumOut = <<>>
  /\ kvOut = JNull
  /\ deltaIn = JNull
  /\ deltaOut = <<>>
  /\ data_dir = "none"
  /\ outputs = {}

NextAgg == Aggregate \/ Render \/ LoadSummary \/ AggExtend

SpecAgg == InitAgg /\ [][NextAgg]_vars

(* ---------- comparison text ---------- *)
\* faulty variant: the quotient is cut off instead of rounded
RoundDown(p, q) == p \div q

\* the integer nearest to p / q (p >= 0, q > 0), a tie going to the even one,
\* as the fixed-point format rounds
RoundNearest(p, q) ==
  LET f == p \div q
      r == p % q
  IN IF 2 * r > q THEN f + 1
     ELSE IF 2 * r < q THEN f
     ELSE IF f % 2 = 0 THEN f ELSE f + 1

\* n as a text of exactly w decimal digits
RECURSIVE FormatDigits(_, _)
FormatDigits(n, w) ==
  IF w = 0 THEN <<>>
  ELSE FormatDigits(n \div 10, w - 1) \o <<DecimalDigits[(n % 10) + 1]>>

Pow10(places) == IF places = 2 THEN 100 ELSE IF places = 1 THEN 10 ELSE 1

\* f"{x:.Nf}" and f"{x:+.Nf}" of the number x = num / den (den > 0): the
\* sign, the integer part, the point and N digits of the rounded fraction
FormatFixed(num, den, places, plus) ==
  LET mag == RoundNearest((IF num < 0 THEN -num ELSE num) * Pow10(places), den)
      sign == IF num < 0 THEN <<"-">> ELSE IF plus THEN <<"+">> ELSE <<>>
  IN sign \o FormatInt(mag \div Pow10(places)) \o <<".">>
          \o FormatDigits(mag % Pow10(places), places)

\* faulty variant: the percentage is written whatever the previous value is
format_delta_always_pct(cur, prev, is_rate) ==
  LET d == cur - prev IN
  IF is_rate
  THEN FormatFixed(cur * 100, 1, 2, FALSE) \o <<"%", " ", "(">>
         \o FormatFixed(d * 100, 1, 2, TRUE) \o <<"p", "p", ")">>
  ELSE FormatFixed(cur, 1, 2, FALSE) \o <<" ", "(">> \o FormatFixed(d, 1, 2, TRUE)
         \o <<",", " ">>
         \o FormatFixed(d * 100, IF prev = 0 THEN 1 ELSE prev, 1, TRUE) \o <<"%", ")">>

\* run.py format_delta: "cur% (dpp)" for a rate, else "cur (d, pct%)" if
\* prev != 0, else "cur (d)"; pct = (d / prev) * 100 with one decimal
format_delta(cur, prev, is_rate) ==
  LET d == cur - prev IN
  IF is_rate
  THEN FormatFixed(cur * 100, 1, 2, FALSE) \o <<"%", " ", "(">>
         \o FormatFixed(d * 100, 1, 2, TRUE) \o <<"p", "p", ")">>
  ELSE IF prev # 0
  THEN FormatFixed(cur, 1, 2, FALSE) \o <<" ", "(">> \o FormatFixed(d, 1, 2, TRUE)
         \o <<",", " ">> \o FormatFixed(d * 100, prev, 1, TRUE) \o <<"%", ")">>
  ELSE FormatFixed(cur, 1, 2, FALSE) \o <<" ", "(">> \o FormatFixed(d, 1, 2, TRUE)
         \o <<")">>

\* build_report.py fmt_delta: the same text with the argument named rate
fmt_delta(cur, prev, rate) ==
  LET d == cur - prev IN
  IF rate
  THEN FormatFixed(cur * 100, 1, 2, FALSE) \o <<"%", " ", "(">>
         \o FormatFixed(d * 100, 1, 2, TRUE) \o <<"p", "p", ")">>
  ELSE IF prev # 0
  THEN FormatFixed(cur, 1, 2, FALSE) \o <<" ", "(">> \o FormatFixed(d, 1, 2, TRUE)
         \o <<",", " ">> \o FormatFixed(d * 100, prev, 1, TRUE) \o <<"%", ")">>
  ELSE FormatFixed(cur, 1, 2, FALSE) \o <<" ", "(">> \o FormatFixed(d, 1, 2, TRUE)
         \o <<")">>

\* the arguments of the next call are chosen
DeltaPick ==
  /\ \E cur \in 0..MaxMetric : \E prev \in 0..MaxMetric : \E is_rate \in BOOLEAN :
       deltaIn' = [cur |-> cur, prev |-> prev, is_rate |-> is_rate]
  /\ deltaOut' = <<>>
  /\ UNCHANGED <<drvVars, runVars, aggEvents, aggOut, sumOut, kvOut, artVars>>

\* format_delta and fmt_delta are applied to the arguments
DeltaFormat ==
  /\ deltaIn # JNull /\ deltaOut = <<>>
  /\ deltaOut' = << format_delta(deltaIn.cur, deltaIn.prev, deltaIn.is_rate),
                    fmt_delta(deltaIn.cur, deltaIn.prev, deltaIn.is_rate) >>
  /\ UNCHANGED <<drvVars, runVars, aggEvents, aggOut, sumOut, kvOut, deltaIn, artVars>>

NextDelta == DeltaPick \/ DeltaFormat

SpecDelta == InitAgg /\ [][NextDelta]_vars

(* ====================== properties ====================== *)

\* C1: cleanup terminates the tracked processes in reverse start order: when
\* a stop signal is sent to a process, terminate_process has been called on
\* and has returned for every process started after it.
C1_ReverseOrder ==
  \A i \in 1..Len(log) : \A a \in 1..Len(procs) : \A b \in 1..Len(procs) :
    (log[i].ev \in {"SIGTERM", "SIGKILL"} /\ log[i].proc = procs[a] /\ a < b)
      => \E c \in 1..Len(log) : \E d \in 1..Len(log) :
           /\ c < d /\ d < i
           /\ log[c].ev = "CALL" /\ log[c].proc = procs[b]
           /\ log[d].ev = "DONE" /\ log[d].proc = procs[b]

\* C1 witness: with a proxy, both processes alive at teardown: the proxy is
\* signalled and done, then the mock is signalled.
C1_Witness ==
  \E i \in 1..Len(log) : \E k \in 1..Len(log) :
    /\ i < k
    /\ log[i].ev = "SIGTERM" /\ log[i].proc = "proxy" /\ log[i].alive
    /\ log[k].ev = "SIGTERM" /\ log[k].proc = "mock" /\ log[k].alive

C3_ExitZero == (pc = "exited" /\ rc = 0) => exit_code = 0

\* C4 (as stated): a readiness step on a supervised process which has
\* already exited fails with ProcessExitedEarly and its exit code, and it does
\* so fast: the driver sleeps at most one polling interval against a dead
\* process instead of waiting out the timeout.
C4_FailFast ==
  /\ dead_polls <= 1
  /\ (exc.proc \in ProcSet /\ exc.dead)
       => (exc.kind = "ProcessExitedEarly" /\ exc.code = pcode[exc.proc])

\* C5: terminate_process is graceful-then-forced: a kill follows directly on
\* the stop signal to the same process, it is sent only after one wait that
\* timed out, never to a process that exited during the graceful wait, a
\* call performs at most two waits, and after a signal attempt, delivered or
\* failed on an exited process, the call goes on to its wait.
C5_GracefulThenForced ==
  /\ twaits <= 2
  /\ \A i \in 1..Len(log) :
       log[i].ev = "SIGKILL"
         => (i > 1 /\ log[i - 1].ev = "SIGTERM" /\ log[i - 1].proc = log[i].proc)
  /\ (pc = "cleanup" /\ tphase \in {"kill", "wait2"}) => (~tgrace /\ twaits = 1)
  /\ (pc = "cleanup" /\ tphase \in {"term", "wait1"}) => twaits = 0
  /\ (log # <<>> /\ log[Len(log)].ev = "SIGTERM")
       => (pc = "cleanup" /\ tphase \in {"wait1", "kill"})
  /\ (log # <<>> /\ log[Len(log)].ev = "SIGKILL")
       => (pc = "cleanup" /\ tphase = "wait2")

\* C5 witness: the kill was delivered to a process that ignored the stop
\* signal for the whole graceful wait.
C5_Witness ==
  /\ pc = "cleanup" /\ tphase = "wait2" /\ twaits = 1
  /\ log[Len(log)].ev = "SIGKILL" /\ log[Len(log)].alive

\* C6: run.jsonl holds exactly the lines read so far, in the order the runner
\* wrote them, and the event buffer holds the decoded values of those lines
\* in the same order.
C6_OrderPreserved ==
  /\ file \o pipe = written
  /\ \E pos \in [1..Len(events) -> 1..Len(file)] :
       /\ \A i \in 1..Len(events) : events[i] = parse_json_line(file[pos[i]])
       /\ \A i \in 1..Len(events) : \A k \in 1..Len(events) : i < k => pos[i] < pos[k]
       /\ \A n \in 1..Len(file) :
            parse_json_line(file[n]) # JNull => \E i \in 1..Len(events) : pos[i] = n

\* C6 witness: three lines read, a blank one among them, two events in the
\* buffer of different kinds.
C6_Witness ==
  /\ Len(file) = 3 /\ Len(events) = 2 /\ events[1] # events[2]
  /\ \E n \in 1..Len(file) : file[n] = " "

\* C7 (as stated): once the loop has ended the runner has exited and every
\* line it wrote has been read and persisted.
C7_NoLineLost ==
  pc \notin {"start_runner", "stream"}
    => (rstate = "exited" /\ pipe = <<>> /\ file = written)

\* C8 (as stated): whatever line is received, it is persisted and the run is
\* not aborted because of it.
C8_NoLineBreaks == file \o pipe = written /\ pc # "handler"

\* C9 (as stated): every element of the event buffer is a decoded object of
\* type summary or final.
C9_OnlySummaryFinal ==
  \A i \in 1..Len(events) :
    IsDict(events[i]) /\ Get(events[i].o, "type", "") \in {"summary", "final"}

\* C10 (as stated): if a Final exists the totals are those of the last Final
\* (a field it does not carry read as 0), else those of the last Summary.
C10_LastFinalTotals ==
  aggOut # JNull =>
    LET F == {i \in 1..Len(aggEvents) : Get(aggEvents[i], "type", "") = "final"}
        S == {i \in 1..Len(aggEvents) : Get(aggEvents[i], "type", "") = "summary"}
        src == IF F # {} THEN aggEvents[CHOOSE i \in F : \A k \in F : k <= i]
               ELSE aggEvents[CHOOSE i \in S : \A k \in S : k <= i]
        t == IF "total" \in DOMAIN src /\ IsDict(src["total"]) THEN src["total"].o ELSE <<>>
    IN (F # {} \/ S # {}) =>
         /\ aggOut.total = Get(t, "total", 0)
         /\ aggOut.ok = Get(t, "ok", 0)
         /\ aggOut.http_fail = Get(t, "http_fail", 0)
         /\ aggOut.other_fail = Get(t, "other_fail", 0)

\* C10 (amended): if the last Final carries a total object with a total or an
\* ok key, the totals are those of that object (a missing field read as 0),
\* whatever summaries precede or follow it; otherwise, if the last Summary
\* carries such a total object, they are those of the last Summary.
C10_LastUsableTotals ==
  aggOut # JNull =>
    LET F == {i \in 1..Len(aggEvents) : Get(aggEvents[i], "type", "") = "final"}
        S == {i \in 1..Len(aggEvents) : Get(aggEvents[i], "type", "") = "summary"}
        Usable(e) == /\ "total" \in DOMAIN e /\ IsDict(e["total"])
                     /\ {"total", "ok"} \cap DOMAIN e["total"].o # {}
        lastF == aggEvents[CHOOSE i \in F : \A k \in F : k <= i]
        lastS == aggEvents[CHOOSE i \in S : \A k \in S : k <= i]
        Same(t) == /\ aggOut.total = Get(t, "total", 0)
                   /\ aggOut.ok = Get(t, "ok", 0)
                   /\ aggOut.http_fail = Get(t, "http_fail", 0)
                   /\ aggOut.other_fail = Get(t, "other_fail", 0)
    IN IF F # {} /\ Usable(lastF) THEN Same(lastF["total"].o)
       ELSE (S # {} /\ Usable(lastS)) => Same(lastS["total"].o)

\* C10 witness: two finals with different totals and a summary after them;
\* the result carries the totals of the second final.
C10_Witness ==
  /\ aggOut # JNull /\ Len(aggEvents) = 3
  /\ aggEvents[1] = [type |-> "final", total |-> Counters(3, 2, 1, 0)]
  /\ aggEvents[2] = [type |-> "final", total |-> Counters(2, 2, 0, 0)]
  /\ Get(aggEvents[3], "type", "") = "summary" /\ "total" \in DOMAIN aggEvents[3]
  /\ aggOut.total = 2

\* C11: for a sequence in which no Final and no Summary event carries a total
\* field, the aggregate totals are the sums of the interval counters of all
\* Summary events (total, ok, http_fail and other_fail each).
C11_IntervalFallback ==
  aggOut # JNull =>
    LET RECURSIVE IntervalSum(_, _)
        IntervalSum(evs, k) ==
          IF evs = <<>> THEN 0
          ELSE (IF Get(Head(evs), "type", "") = "summary"
                     /\ "interval" \in DOMAIN Head(evs) /\ IsDict(Head(evs)["interval"])
                THEN Get(Head(evs)["interval"].o, k, 0) ELSE 0)
               + IntervalSum(Tail(evs), k)
        NoTotals == \A i \in 1..Len(aggEvents) :
                      Get(aggEvents[i], "type", "") \in {"final", "summary"}
                        => "total" \notin DOMAIN aggEvents[i]
    IN NoTotals =>
         /\ aggOut.total = IntervalSum(aggEvents, "total")
         /\ aggOut.ok = IntervalSum(aggEvents, "ok")
         /\ aggOut.http_fail = IntervalSum(aggEvents, "http_fail")
         /\ aggOut.other_fail = IntervalSum(aggEvents, "other_fail")

\* C12: the temporary directory is deleted at the end of a run that neither
\* failed nor asked for a report: when such a run has exited with status 0,
\* the directory no longer exists; in every other run it is retained.
C12_RemovedUnlessKept ==
  pc = "exited" /\ data_dir # "none" =>
    IF exit_code = 0 /\ ~report_file
    THEN data_dir = "removed"
    ELSE data_dir = "exists"

\* C13: when runner.wait() gives a non-zero status the run fails as
\* RunnerFailed: terminate_process has been called on and has returned for
\* every tracked process before the error is raised, the temporary directory
\* is kept, the error lists the artifact locations, the exit status is
\* non-zero, and none of the success outputs (stable summary file, saved
\* baseline, report paths, "netbench finished" text) is ever produced.
C13_RunnerFailed ==
  rc \notin {-1, 0} =>
    /\ outputs = {}
    /\ data_dir = "exists"
    /\ pc \in {"cleanup", "raise_runner", "handler", "atexit", "exited"}
    /\ (pc = "cleanup") => clRet \in {"raise_runner", "exited"}
    /\ (pc \in {"raise_runner", "handler", "atexit", "exited"} \/ clRet = "exited") =>
         \A i \in 1..Len(procs) :
           \E d \in 1..Len(log) : log[d].ev = "DONE" /\ log[d].proc = procs[i]
    /\ (pc \in {"handler", "atexit", "exited"} \/ clRet = "exited") =>
         /\ exc.kind = "RunnerFailed" /\ exc.code = rc
         /\ {"data dir", "jsonl", "run log"} \subseteq ArtifactsNamed(exc)
    /\ (pc \in {"atexit", "exited"} \/ clRet = "exited") =>
         /\ exit_code = 1
         /\ \E i \in 1..Len(log) : log[i].ev = "ERRPRINT" /\ log[i].proc = "RunnerFailed"

\* C13 witness: the run has exited after the runner ended with status 1 in
\* proxy mode; both services were torn down and the error was printed.
C13_Witness ==
  /\ pc = "exited" /\ rc = 1 /\ exit_code = 1
  /\ procs = <<"mock", "proxy">>
  /\ exc.kind = "RunnerFailed"
  /\ outputs = {} /\ data_dir = "exists"

\* C14: wait_for_file never polls without end: it has slept at most one
\* polling interval beyond its timeout (MaxPolls intervals) in every state; its
\* loop is left only with the file seen non-empty or, at the deadline, with
\* the timeout error; that error is raised no earlier than the deadline and no
\* later than one interval after it, and its message gives the awaited path.
C14_TimeoutBounded ==
  /\ [](/\ polls <= MaxPolls + 1
        /\ exc.kind = "ReadinessTimeout" =>
             /\ exc.proc \in ProcSet
             /\ ArtifactsNamed(exc) = {"addr file of " \o exc.proc}
             /\ MaxPolls <= polls /\ polls <= MaxPolls + 1)
  /\ [][\A p \in ProcSet :
         (pc = "wait_" \o p /\ pc' # pc) =>
            \/ pc' = "read_" \o p /\ FileReady(addrfile[p])
            \/ /\ pc' = "handler" /\ polls >= MaxPolls
               /\ exc' = Exc("ReadinessTimeout", p, 0, pstate[p] = "exited")]_vars

\* C14 witness: the mock is running and has not created its address file;
\* the wait has ended with the timeout error at the deadline.
C14_Witness ==
  /\ pc = "handler" /\ exc.kind = "ReadinessTimeout" /\ exc.proc = "mock"
  /\ pstate["mock"] = "running" /\ addrfile["mock"] = "absent"
  /\ polls = MaxPolls

\* C15: whatever the producer does to the address file, read_addr_file
\* either returns the non-empty trimmed address or fails with the timeout
\* error: the readiness discovery never ends with a file-not-found error or
\* an empty-address error, and the driver goes on only with an address.
C15_OnlyTimeoutIsAnError ==
  /\ exc.kind \notin {"FileNotFoundError", "AddressFileEmpty"}
  /\ \A p \in ProcSet : pc = "check_" \o p => addrfile[p] = "addr"

\* C16: cleanup is idempotent. When it runs again after an earlier run of it
\* (the exit-time hook after the cleanup of the failure path or of the normal
\* path: terminate_process has already returned for the first-started
\* process), every tracked process has exited or has already been sent SIGKILL;
\* during the later run no process changes state except that one killed
\* before may exit, no further process is marked as killed, no error is
\* raised and the exit status of the driver stays, and a signal goes to a
\* process only inside a call that found that process alive.
C16_Idempotent ==
  /\ []((/\ pc = "cleanup" /\ clRet = "exited" /\ procs # <<>>
         /\ \E i \in 1..Len(log) : log[i].ev = "DONE" /\ log[i].proc = procs[1]) =>
          /\ \A i \in 1..Len(procs) : pstate[procs[i]] = "exited" \/ pkilled[procs[i]]
          /\ tphase # "poll" => pkilled[Head(clTodo)])
  /\ [][(/\ pc = "cleanup" /\ clRet = "exited" /\ procs # <<>>
         /\ \E i \in 1..Len(log) : log[i].ev = "DONE" /\ log[i].proc = procs[1]) =>
          /\ pkilled' = pkilled
          /\ exc' = exc /\ exit_code' = exit_code
          /\ \A p \in ProcSet :
               pstate'[p] # pstate[p] => pkilled[p] /\ pstate'[p] = "exited"
          /\ (Len(log') = Len(log) + 1 /\ log'[Len(log')].ev \in {"SIGTERM", "SIGKILL"}) =>
               \E c \in 1..Len(log) :
                 /\ log[c] = LogEntry("CALL", log'[Len(log')].proc, TRUE)
                 /\ \A d \in (c + 1)..Len(log) : log[d].ev \notin {"CALL", "DONE"}]_vars

\* C16 witness: the run has exited after the runner ended with status 0 in
\* proxy mode; cleanup ran twice, and its second run found the mock, which
\* the first run had found alive, already exited.
C16_Witness ==
  /\ pc = "exited" /\ rc = 0 /\ procs = <<"mock", "proxy">>
  /\ \E i \in 1..Len(log) : \E j \in 1..Len(log) :
       /\ i < j
       /\ log[i] = LogEntry("CALL", "mock", TRUE)
       /\ log[j] = LogEntry("CALL", "mock", FALSE)
       /\ \A k \in j..Len(log) : log[k].ev \notin {"SIGTERM", "SIGKILL"}

\* C17: terminate_process on a process that has already exited returns at
\* once: the call is followed directly by its return, with no stop signal
\* and no kill signal in between (it returns normally, nothing is raised),
\* and it performs no timeout-bounded wait.
C17_ExitedReturnsPromptly ==
  /\ \A c \in 1..Len(log) :
       (log[c].ev = "CALL" /\ ~log[c].alive) =>
         /\ c < Len(log)
         /\ log[c + 1].ev = "DONE" /\ log[c + 1].proc = log[c].proc
  /\ (Len(log) >= 2 /\ log[Len(log) - 1].ev = "CALL" /\ ~log[Len(log) - 1].alive) =>
       /\ twaits = 0 /\ tphase = "poll" /\ ~tgrace

\* C17 witness: the mock exited by itself before the driver saw its address;
\* the exit-time cleanup called terminate_process on it and sent no signal.
C17_Witness ==
  /\ pc = "exited" /\ exc.kind = "ProcessExitedEarly" /\ ~pkilled["mock"]
  /\ \E c \in 1..Len(log) : log[c] = LogEntry("CALL", "mock", FALSE)
  /\ \A i \in 1..Len(log) : log[i].ev \notin {"SIGTERM", "SIGKILL"}

\* C18: when the last Final event is well formed (its total object carries
\* total, ok, http_fail and other_fail), the ok_rate of the aggregate is
\* ok / total of that object if its total is positive and 0 otherwise; the
\* quotient is never taken with a zero divisor.
C18_OkRate ==
  aggOut # JNull =>
    LET F == {i \in 1..Len(aggEvents) : Get(aggEvents[i], "type", "") = "final"}
        lastF == aggEvents[CHOOSE i \in F : \A k \in F : k <= i]
        WellFormed(e) == /\ "total" \in DOMAIN e /\ IsDict(e["total"])
                         /\ DOMAIN e["total"].o = {"total", "ok", "http_fail", "other_fail"}
    IN /\ aggOut.ok_rate.den # 0
       /\ (F # {} /\ WellFormed(lastF)) =>
            IF lastF["total"].o["total"] > 0
            THEN aggOut.ok_rate = Ratio(lastF["total"].o["ok"], lastF["total"].o["total"])
            ELSE aggOut.ok_rate = Ratio(0, 1)

\* C18 witness: a Final with positive total is followed by a Final whose
\* total is 0; the aggregate of the two has ok_rate 0.
C18_Witness ==
  /\ aggEvents = << [type |-> "final", total |-> Counters(3, 2, 1, 0)],
                    [type |-> "final", total |-> Counters(0, 0, 0, 0)] >>
  /\ aggOut # JNull /\ aggOut.total = 0 /\ aggOut.ok_rate = Ratio(0, 1)

\* C19: avg_main_rps is the mean of rps over exactly the Summary events
\* whose phase is "main" (summaries of other phases and Final events add
\* nothing), and 0 when there is none. For the summaries (warmup, rps 10)
\* and (main, rps 100) followed by a Final with total 50, ok 45, http_fail 5,
\* other_fail 0, the aggregate has avg_main_rps 100, ok_rate 0.9, total 50.
C19_AvgMainRps ==
  aggOut # JNull =>
    LET M == {i \in 1..Len(aggEvents) :
                /\ Get(aggEvents[i], "type", "") = "summary"
                /\ Get(aggEvents[i], "phase", "") = "main"}
        RECURSIVE RpsOver(_)
        RpsOver(I) == IF I = {} THEN 0
                      ELSE LET i == CHOOSE k \in I : TRUE
                           IN Get(aggEvents[i], "rps", 0) + RpsOver(I \ {i})
    IN /\ aggOut.avg_main_rps =
            IF M = {} THEN Ratio(0, 1) ELSE Ratio(RpsOver(M), Cardinality(M))
       /\ aggEvents = << [type |-> "summary", phase |-> "warmup", rps |-> 10,
                          interval |-> Counters(2, 1, 1, 0)],
                         [type |-> "summary", phase |-> "main", rps |-> 100,
                          total |-> Counters(1, 1, 0, 0), interval |-> Counters(1, 1, 0, 0)],
                         [type |-> "final", total |-> Counters(50, 45, 5, 0)] >>
            => /\ aggOut.avg_main_rps.num = 100 * aggOut.avg_main_rps.den
               /\ 10 * aggOut.ok_rate.num = 9 * aggOut.ok_rate.den
               /\ aggOut.total = 50

\* C19 witness: the aggregate of a warmup summary (rps 10), a main summary
\* (rps 100) and the Final with total 50 and ok 45 has been computed.
C19_Witness ==
  /\ Len(aggEvents) = 3 /\ aggOut # JNull
  /\ Get(aggEvents[1], "phase", "") = "warmup" /\ Get(aggEvents[1], "rps", 0) = 10
  /\ Get(aggEvents[2], "phase", "") = "main" /\ Get(aggEvents[2], "rps", 0) = 100
  /\ aggEvents[3] = [type |-> "final", total |-> Counters(50, 45, 5, 0)]
  /\ aggOut.avg_main_rps = Ratio(100, 1)

\* C20: for a sequence without any Final and without any Summary event (the
\* empty sequence included) the stable summary is the sentinel line
\* no_final_event=1, not numeric totals.
C20_SentinelWhenNoTotals ==
  (/\ sumOut # <<>>
   /\ \A i \in 1..Len(aggEvents) :
        Get(aggEvents[i], "type", "") \notin {"final", "summary"})
    => sumOut = <<"n", "o", "_", "f", "i", "n", "a", "l", "_",
                  "e", "v", "e", "n", "t", "=", "1", "\n">>

\* C21: the text of the stable summary, loaded again with parse_kv_summary,
\* gives exactly the four keys total, ok, http_fail, other_fail with the
\* counters of the layer the summary was taken from (the last Final with
\* totals, else the last Summary with totals, else the sums of the interval
\* counters); and rendering the same sequence again gives the same text.
C21_RoundTrip ==
  /\ sumOut # <<>> => sumOut = render_diff_friendly_summary_from_events(aggEvents)
  /\ kvOut # JNull =>
       LET F == {i \in 1..Len(aggEvents) : Get(aggEvents[i], "type", "") = "final"}
           S == {i \in 1..Len(aggEvents) : Get(aggEvents[i], "type", "") = "summary"}
           Nested(e) == "total" \in DOMAIN e /\ IsDict(e["total"])
           Flat(e) == ~Nested(e) /\ {"total", "ok"} \cap DOMAIN e # {}
           Has(I) == I # {} /\ LET e == aggEvents[CHOOSE i \in I : \A k \in I : k <= i]
                               IN Nested(e) \/ Flat(e)
           Field(I, f) == LET e == aggEvents[CHOOSE i \in I : \A k \in I : k <= i]
                          IN IF Nested(e) THEN Get(e["total"].o, f, 0)
                             ELSE IF f = "total" /\ "total" \in DOMAIN e THEN e["total"].n
                             ELSE IF f = "total" THEN 0
                             ELSE Get(e, f, 0)
           RECURSIVE Intervals(_, _)
           Intervals(I, f) ==
             IF I = {} THEN 0
             ELSE LET i == CHOOSE k \in I : TRUE
                      e == aggEvents[i]
                  IN (IF "interval" \in DOMAIN e /\ IsDict(e["interval"])
                      THEN Get(e["interval"].o, f, 0) ELSE 0) + Intervals(I \ {i}, f)
           Orig(f) == IF Has(F) THEN Field(F, f)
                      ELSE IF Has(S) THEN Field(S, f)
                      ELSE Intervals(S, f)
       IN /\ DOMAIN kvOut = {"total", "ok", "http_fail", "other_fail"}
          /\ \A f \in DOMAIN kvOut : kvOut[f] = Orig(f)

\* C21 witness: the summary of a sequence ending in the Final with total 50,
\* ok 45, http_fail 5 has been rendered and loaded again; the loaded total is
\* the two-digit number 50.
C21_Witness ==
  /\ aggEvents # <<>>
  /\ aggEvents[Len(aggEvents)] = [type |-> "final", total |-> Counters(50, 45, 5, 0)]
  /\ sumOut # <<>> /\ kvOut # JNull
  /\ kvOut["total"] = 50 /\ kvOut["ok"] = 45 /\ kvOut["http_fail"] = 5

\* C22: for a value that is not a rate, the text of format_delta (and of
\* fmt_delta) holds a percentage exactly when the previous value is not 0;
\* with previous value 0 it is only the current value and the signed delta,
\* "cur.00 (+cur.00)".
C22_NoPercentWhenPrevZero ==
  (deltaOut # <<>> /\ ~deltaIn.is_rate) =>
    \A k \in 1..2 :
      /\ (\E i \in 1..Len(deltaOut[k]) : deltaOut[k][i] = "%") <=> deltaIn.prev # 0
      /\ deltaIn.prev = 0 =>
           deltaOut[k] = FormatInt(deltaIn.cur) \o <<".", "0", "0", " ", "(", "+">>
                           \o FormatInt(deltaIn.cur) \o <<".", "0", "0", ")">>

\* C22 witness: format_delta(5, 0) has been computed; its text is "5.00 (+5.00)".
C22_Witness ==
  /\ deltaIn # JNull /\ deltaIn.cur = 5 /\ deltaIn.prev = 0 /\ ~deltaIn.is_rate
  /\ deltaOut # <<>>
  /\ deltaOut[1] = <<"5", ".", "0", "0", " ", "(", "+", "5", ".", "0", "0", ")">>

\* C23: for a value that is not a rate and a previous value that is not 0,
\* the text of format_delta (and of fmt_delta) ends with the percentage
\* written with two decimal places: "...X.YY%)".
C23_PctTwoDecimals ==
  (deltaOut # <<>> /\ ~deltaIn.is_rate /\ deltaIn.prev # 0) =>
    \A k \in 1..2 :
      LET t == deltaOut[k] IN
        /\ Len(t) >= 6
        /\ t[Len(t)] = ")" /\ t[Len(t) - 1] = "%"
        /\ t[Len(t) - 4] = "."

\* C23 (amended): for a value that is not a rate and a previous value that is
\* not 0, the text ends with ", ", a sign, the percentage with one decimal
\* place and "%)"; the sign is that of x - y ("+" for 0) and the number
\* written is the tenth nearest to (x - y) / y * 100.
C23_PctOneDecimal ==
  (deltaOut # <<>> /\ ~deltaIn.is_rate /\ deltaIn.prev # 0) =>
    \A k \in 1..2 :
      LET t == deltaOut[k]
          c == IndexOf(t, ",")
          d == deltaIn.cur - deltaIn.prev
          absd == IF d < 0 THEN -d ELSE d
          shown == 10 * DigitsValue(SubSeq(t, c + 3, Len(t) - 4))
                       + DigitsValue(<<t[Len(t) - 2]>>)
          err == shown * deltaIn.prev - 1000 * absd
      IN /\ c > 0 /\ t[c + 1] = " "
         /\ t[c + 2] = (IF d < 0 THEN "-" ELSE "+")
         /\ t[Len(t)] = ")" /\ t[Len(t) - 1] = "%" /\ t[Len(t) - 3] = "."
         /\ Len(t) - 4 >= c + 3
         /\ 2 * (IF err < 0 THEN -err ELSE err) <= deltaIn.prev

\* C23 witness: format_delta(1, 3) has been computed; (1 - 3) / 3 * 100 is
\* -66.66..., its text is "1.00 (-2.00, -66.7%)".
C23_Witness ==
  /\ deltaIn # JNull /\ deltaIn.cur = 1 /\ deltaIn.prev = 3 /\ ~deltaIn.is_rate
  /\ deltaOut # <<>>
  /\ deltaOut[1] = <<"1", ".", "0", "0", " ", "(", "-", "2", ".", "0", "0", ",", " ",
                     "-", "6", "6", ".", "7", "%", ")">>
  /\ deltaOut[2] = deltaOut[1]

\* C24: the blocked-events probe is made exactly in the runs with a proxy,
\* after runner.wait() gave 0 and before the cleanup that follows it; and no
\* failure of the probe is fatal: whatever the mock answers and whatever its
\* address looks like, the count is known or reported as unknown, no error
\* leaves the probe, and the exit status is not changed by it.
C24_ProbeNonFatal ==
  /\ blocked_count # "unset" => proxy_is_enabled /\ rc = 0
  /\ (rc = 0 /\ proxy_is_enabled /\ pc \notin {"post"}) =>
       blocked_count \in {"unknown", "known"}
  /\ exc.kind # "ValueError:split_host_port"
  /\ (rc = 0 /\ ~proxy_is_enabled) => blocked_count = "unset"

\* C25: when the driver has exited, on whatever path, no process it started
\* is left running: every started mock or proxy has exited or has been sent
\* SIGKILL, and the runner, once started, has exited.
C25_AllChildrenTornDown ==
  pc = "exited" =>
    /\ \A p \in ProcSet : pstate[p] = "running" => pkilled[p]
    /\ rstate # "running"

\* C26: the processes are started in dependency order. The proxy is started
\* only in proxy mode and only from the point reached when the address of the
\* mock has been read and the mock was found alive; the runner is started
\* only from the point reached when the last service started (the proxy in
\* proxy mode, else the mock) had its address read and was found alive, with
\* the address of every tracked process read; and from its start on the
\* runner is pointed at the proxy if the proxy is enabled, else at the mock.
C26_DependencyOrder ==
  /\ [](/\ pstate["proxy"] # "none" =>
             proxy_is_enabled /\ procs = <<"mock", "proxy">> /\ addrfile["mock"] = "addr"
        /\ (rstate # "none" \/ pc = "start_runner") =>
             /\ target_addr = (IF proxy_is_enabled THEN "proxy" ELSE "mock")
             /\ procs = (IF proxy_is_enabled THEN <<"mock", "proxy">> ELSE <<"mock">>)
             /\ \A i \in 1..Len(procs) : addrfile[procs[i]] = "addr")
  /\ [][/\ (pstate["proxy"] = "none" /\ pstate'["proxy"] # "none") => pc = "start_proxy"
        /\ (pc # "start_proxy" /\ pc' = "start_proxy") =>
             pc = "check_mock" /\ pstate["mock"] = "running" /\ addrfile["mock"] = "addr"
        /\ (rstate = "none" /\ rstate' # "none") => pc = "start_runner"
        /\ (pc # "start_runner" /\ pc' = "start_runner") =>
             /\ pc = "check_" \o procs[Len(procs)]
             /\ pstate[procs[Len(procs)]] = "running"
             /\ addrfile[procs[Len(procs)]] = "addr"]_vars

\* C26 witness: in proxy mode the runner has been started, after the mock and
\* the proxy in this order, and is pointed at the proxy.
C26_Witness ==
  /\ proxy_is_enabled /\ rstate = "running" /\ pc = "stream"
  /\ procs = <<"mock", "proxy">> /\ target_addr = "proxy"
  /\ addrfile["mock"] = "addr" /\ addrfile["proxy"] = "addr"

\* C27: the spinner is redrawn only in idle gaps: a step that redraws it
\* (spin changes) is an iteration in which readline gave no line and in which
\* the runner was found not exited; an iteration that takes a line (and
\* prints the progress line of a Summary) never redraws it.
C27_SpinnerOnlyWhileRunning ==
  [][spin' # spin =>
       /\ pc = "stream" /\ pipe = <<>> /\ pipe' = pipe /\ events' = events
       /\ last_summary' = last_summary
       /\ rstate # "exited"]_vars

(* ---------- termination ---------- *)
\* the steps of the orchestrator itself: main(), the readiness loops, cleanup
\* and terminate_process; the steps of the children are left out
OrchestratorStep ==
  \/ Build
  \/ \E p \in ProcSet : StartProc(p)
  \/ \E p \in ProcSet : WaitForFile(p)
  \/ \E p \in ProcSet : ReadAddr(p)
  \/ \E p \in ProcSet : ensure_process_alive(p)
  \/ StartRunner
  \/ StreamLine
  \/ StreamIdle
  \/ RunnerWait
  \/ RaiseRunnerFailed
  \/ PostRun
  \/ Output
  \/ Handler
  \/ AtExit
  \/ TermPoll
  \/ TermSignal
  \/ TermWait1
  \/ TermKill
  \/ TermWait2
  \/ CleanupReturn

\* the driver is one sequential thread that runs whenever its next statement
\* can run; the mock, the proxy and the runner are under no obligation
SpecFair == Init /\ [][Next]_vars /\ WF_vars(OrchestratorStep)

\* C28: every wait of the orchestrator is bounded, so under fair scheduling a
\* run always ends: the orchestrator reaches its terminal state, having torn
\* down, whatever the mock, the proxy and the runner do.
C28_RunAlwaysEnds == <>(pc = "exited")

\* C29: the stable summary and the aggregate fall back through the same
\* layers: whenever the summary of a sequence holds totals, its total, ok,
\* http_fail and other_fail (as loaded from its text) equal the fields of the
\* aggregate of the same sequence.
C29_SameLayers ==
  (aggOut # JNull /\ kvOut # JNull) =>
    \A f \in {"total", "ok", "http_fail", "other_fail"} :
      f \in DOMAIN kvOut => kvOut[f] = aggOut[f]

====
